---- MODULE Spec2Model ----
(***************************************************************************)
(* Model of qr_app.py: the four QR renderers (elegant/classic x PNG/SVG)   *)
(* and the generate handler of main().                                     *)
(*                                                                         *)
(* Geometry is exact integer arithmetic in sub-units: one raster pixel     *)
(* and one vector module pitch are Sub sub-units each, so that every       *)
(* fraction the source uses (/2, 0.85, 0.42, 3.5, 2.5, 1.5) is an integer. *)
(* The vector pitch itself, size / (module_count + 2*border), is kept as   *)
(* the rational size / den in the "den" field of an SVG document.          *)
(* Floating-point rounding of the printed coordinates is not modelled.     *)
(* A raster drawing call is recorded with the corner coordinates it is     *)
(* given; that the imaging library also fills the pixels of the end        *)
(* coordinate itself is not represented.                                   *)
(***************************************************************************)
EXTENDS Integers, Sequences, FiniteSets, TLC

\* ---- bounds of the model ------------------------------------------------
MaxVersion == 2      \* QR versions 1..MaxVersion (21, 25, ... modules)
MaxData    == 5      \* number of optional dark data modules that may be set

\* sub-units per raster pixel and per vector module pitch
Sub == 2 * 100

\* ---- program constants --------------------------------------------------
box_size == 40
border   == 4
size     == 1000

\* the value of an output that has not been produced
None == [ kind |-> "None" ]

\* ---- the encoder (qrcode.QRCode, external) ------------------------------
\* side length of a symbol of version v
ModulesCount(v) == 17 + 4 * v

\* dark cells of one 7x7 finder pattern, relative to its top-left corner
FinderDark(r, c) ==
    \/ r \in {0, 6}
    \/ c \in {0, 6}
    \/ (r \in 2..4 /\ c \in 2..4)

\* top-left corners <<row, col>> of the three finder regions of a symbol
FinderCorners(n) == { <<0, 0>>, <<0, n - 7>>, <<n - 7, 0>> }

InFinder(n, row, col) ==
    \E k \in FinderCorners(n) :
        /\ row \in k[1]..(k[1] + 6)
        /\ col \in k[2]..(k[2] + 6)

FinderCells(n) ==
    { rc \in (0..(n - 1)) \X (0..(n - 1)) :
        \E k \in FinderCorners(n) :
            /\ rc[1] - k[1] \in 0..6
            /\ rc[2] - k[2] \in 0..6
            /\ FinderDark(rc[1] - k[1], rc[2] - k[2]) }

\* optional dark modules outside the finder regions and their separators
DataCell(i, n) ==
    CASE i = 1 -> <<6, 8>>
      [] i = 2 -> <<8, 6>>
      [] i = 3 -> <<n - 8, 8>>
      [] i = 4 -> <<n - 1, n - 1>>
      [] i = 5 -> <<9, 9>>
      [] OTHER -> <<10, 8 + (i % 12)>>

\* the symbols the encoder can return: modules_count and the dark modules
Symbols ==
    { [ modules_count |-> ModulesCount(v),
        modules |-> FinderCells(ModulesCount(v)) \cup
                    { DataCell(i, ModulesCount(v)) : i \in S } ] :
        v \in 1..MaxVersion, S \in SUBSET (1..MaxData) }

\* qr.get_matrix(): the modules INCLUDING the border of qr.border light
\* modules on every side; len(matrix) = modules_count + 2*border
get_matrix(qr) ==
    [ count |-> qr.modules_count + 2 * border,
      cells |-> { <<rc[1] + border, rc[2] + border>> : rc \in qr.modules } ]

\* ---- for row in range(count): for col in range(count): if m[row][col] ---
RECURSIVE TrueCols(_, _, _, _)
TrueCols(cells, count, row, col) ==
    IF col >= count THEN << >>
    ELSE (IF <<row, col>> \in cells THEN << <<row, col>> >> ELSE << >>)
         \o TrueCols(cells, count, row, col + 1)

RECURSIVE TrueRows(_, _, _)
TrueRows(cells, count, row) ==
    IF row >= count THEN << >>
    ELSE TrueCols(cells, count, row, 0) \o TrueRows(cells, count, row + 1)

TrueCells(cells, count) == TrueRows(cells, count, 0)

\* ---- SVG documents -----------------------------------------------------
\* An SVG document is [size, den, elements]: width = height = viewBox =
\* size, one module pitch is size / den, and the elements are in document
\* order with coordinates in sub-units of the pitch.
Rect(x, y, width, height, fill) ==
    [ kind |-> "rect", x |-> x, y |-> y,
      width |-> width, height |-> height, fill |-> fill ]

Circle(cx, cy, r, fill) ==
    [ kind |-> "circle", cx |-> cx, cy |-> cy, r |-> r, fill |-> fill ]

\* <rect width="{size}" height="{size}" fill="white"/>, where
\* size = module_size * (module_count + 2 * border)
SvgBackground(module_count, module_size) ==
    Rect(0, 0, (module_count + 2 * border) * module_size,
               (module_count + 2 * border) * module_size, "white")

\* radius = module_size * 0.42
SvgRadius(module_size) == (module_size * 42) \div 100

\* one data circle of create_svg_elegant
SvgDataCircle(row, col, module_size, offset) ==
    Circle(offset + col * module_size + module_size \div 2,
           offset + row * module_size + module_size \div 2,
           SvgRadius(module_size), "black")

\* marker_clear_size = 8 * module_size
marker_clear_size(module_size) == 8 * module_size

\* variant: the 8-wide clearing rectangle starts where the marker starts
x_tr_clear_Seven(module_count, module_size, offset) ==
    offset + (module_count - 7) * module_size

\* x_tr_clear = y_bl_clear = offset + (module_count - 8) * module_size
x_tr_clear(module_count, module_size, offset) ==
    offset + (module_count - 8) * module_size

\* variant: the bottom-left area is not cleared
SvgClearRects_TwoOnly(module_count, module_size, offset) ==
    << Rect(offset, offset,
            8 * module_size, 8 * module_size, "white"),
       Rect(offset + (module_count - 8) * module_size, offset,
            8 * module_size, 8 * module_size, "white") >>

\* the three white rectangles that clear the marker areas
SvgClearRects(module_count, module_size, offset) ==
    << Rect(offset, offset,
            marker_clear_size(module_size), marker_clear_size(module_size),
            "white"),
       Rect(x_tr_clear(module_count, module_size, offset), offset,
            marker_clear_size(module_size), marker_clear_size(module_size),
            "white"),
       Rect(offset, x_tr_clear(module_count, module_size, offset),
            marker_clear_size(module_size), marker_clear_size(module_size),
            "white") >>

\* the three circles of one marker, r = 3.5, 2.5, 1.5 * module_size
SvgMarker(center_x, center_y, module_size) ==
    << Circle(center_x, center_y, (35 * module_size) \div 10, "black"),
       Circle(center_x, center_y, (25 * module_size) \div 10, "white"),
       Circle(center_x, center_y, (15 * module_size) \div 10, "black") >>

\* the three markers: top-left, top-right, bottom-left
SvgMarkers(module_count, module_size, offset) ==
    SvgMarker(offset + (35 * module_size) \div 10,
              offset + (35 * module_size) \div 10, module_size)
    \o SvgMarker(offset + (module_count - 7) * module_size
                    + (35 * module_size) \div 10,
                 offset + (35 * module_size) \div 10, module_size)
    \o SvgMarker(offset + (35 * module_size) \div 10,
                 offset + (module_count - 7) * module_size
                    + (35 * module_size) \div 10, module_size)

\* variant: the markers are drawn before the data circles
SvgElegantElements_MarkersFirst(matrix, module_count, module_size, offset) ==
    LET on == TrueCells(matrix.cells, module_count)
    IN  << SvgBackground(module_count, module_size) >>
        \o SvgClearRects(module_count, module_size, offset)
        \o SvgMarkers(module_count, module_size, offset)
        \o [ i \in 1..Len(on) |->
               SvgDataCircle(on[i][1], on[i][2], module_size, offset) ]

SvgElegantElements(matrix, module_count, module_size, offset) ==
    LET on == TrueCells(matrix.cells, module_count)
    IN  << SvgBackground(module_count, module_size) >>
        \o [ i \in 1..Len(on) |->
               SvgDataCircle(on[i][1], on[i][2], module_size, offset) ]
        \o SvgClearRects(module_count, module_size, offset)
        \o SvgMarkers(module_count, module_size, offset)

create_svg_elegant(qr) ==
    LET matrix       == get_matrix(qr)
        module_count == matrix.count
        module_size  == Sub
        offset       == border * module_size
    IN  [ size |-> size,
          den  |-> module_count + 2 * border,
          elements |->
              SvgElegantElements(matrix, module_count, module_size, offset) ]

\* variant: row and column exchanged
SvgClassicRect_Transposed(row, col, module_size, offset) ==
    Rect(offset + row * module_size, offset + col * module_size,
         module_size, module_size, "black")

\* one module rectangle of create_svg_classic
SvgClassicRect(row, col, module_size, offset) ==
    Rect(offset + col * module_size, offset + row * module_size,
         module_size, module_size, "black")

SvgClassicElements(matrix, module_count, module_size, offset) ==
    LET on == TrueCells(matrix.cells, module_count)
    IN  << SvgBackground(module_count, module_size) >>
        \o [ i \in 1..Len(on) |->
               SvgClassicRect(on[i][1], on[i][2], module_size, offset) ]

create_svg_classic(qr) ==
    LET matrix       == get_matrix(qr)
        module_count == matrix.count
        module_size  == Sub
        offset       == border * module_size
    IN  [ size |-> size,
          den  |-> module_count + 2 * border,
          elements |->
              SvgClassicElements(matrix, module_count, module_size, offset) ]

\* ---- raster images -----------------------------------------------------
\* An image is [img_size, out_size, draws]: the native canvas side, the
\* side after img.resize, and the drawing calls in the order they ran,
\* each with the corner coordinates it was given, in sub-units of a pixel.
Px(k) == k * Sub

Ellipse(x0, y0, x1, y1, fill) ==
    [ kind |-> "ellipse", x0 |-> x0, y0 |-> y0, x1 |-> x1, y1 |-> y1,
      fill |-> fill ]

Rectangle(x0, y0, x1, y1, fill) ==
    [ kind |-> "rectangle", x0 |-> x0, y0 |-> y0, x1 |-> x1, y1 |-> y1,
      fill |-> fill ]

\* the image the factory creates: (modules_count + 2*border) * box_size
\* pixels square, filled with the back colour
pixel_size(qr) == Px((qr.modules_count + 2 * border) * box_size)

NewImage(img_size) == Rectangle(0, 0, img_size, img_size, "white")

\* pixel_box(row, col) of the image factory:
\* ((x, y), (x + box_size - 1, y + box_size - 1)), x = (col + border) * box_size
pixel_box(row, col) ==
    << << Px((col + border) * box_size), Px((row + border) * box_size) >>,
       << Px((col + border) * box_size + box_size - 1),
          Px((row + border) * box_size + box_size - 1) >> >>

\* CircleAllModuleDrawer.drawrect(box, is_active) for an active module
drawrect(box) ==
    LET x == box[1][1]
        y == box[1][2]
        sz == box[2][1] - box[1][1]
        radius == sz \div 2
        center_x == x + radius
        center_y == y + radius
        circle_radius == (radius * 85) \div 100
    IN  Ellipse(center_x - circle_radius, center_y - circle_radius,
                center_x + circle_radius, center_y + circle_radius, "black")

\* variant: the inner circle is drawn before the middle one
draw_circular_position_marker_Reordered(x, y, module_size) ==
    LET center_x == x + (35 * module_size) \div 10
        center_y == y + (35 * module_size) \div 10
        outer_r  == (35 * module_size) \div 10
        middle_r == (25 * module_size) \div 10
        inner_r  == (15 * module_size) \div 10
    IN  << Ellipse(center_x - outer_r, center_y - outer_r,
                   center_x + outer_r, center_y + outer_r, "black"),
           Ellipse(center_x - inner_r, center_y - inner_r,
                   center_x + inner_r, center_y + inner_r, "black"),
           Ellipse(center_x - middle_r, center_y - middle_r,
                   center_x + middle_r, center_y + middle_r, "white") >>

draw_circular_position_marker(x, y, module_size) ==
    LET center_x == x + (35 * module_size) \div 10
        center_y == y + (35 * module_size) \div 10
        outer_r  == (35 * module_size) \div 10
        middle_r == (25 * module_size) \div 10
        inner_r  == (15 * module_size) \div 10
    IN  << Ellipse(center_x - outer_r, center_y - outer_r,
                   center_x + outer_r, center_y + outer_r, "black"),
           Ellipse(center_x - middle_r, center_y - middle_r,
                   center_x + middle_r, center_y + middle_r, "white"),
           Ellipse(center_x - inner_r, center_y - inner_r,
                   center_x + inner_r, center_y + inner_r, "black") >>

\* variant: the cleared square is two modules too wide
marker_size_Nine(module_size) == 9 * module_size

\* marker_size = 7 * module_size
marker_size(module_size) == 7 * module_size

\* the three white rectangles that clear the marker areas
ClearRectangles(offset, top_right_x, bottom_left_y, msz) ==
    << Rectangle(offset, offset, offset + msz, offset + msz, "white"),
       Rectangle(top_right_x, offset, top_right_x + msz, offset + msz,
                 "white"),
       Rectangle(offset, bottom_left_y, offset + msz, bottom_left_y + msz,
                 "white") >>

replace_position_markers(img, bsize, bord) ==
    LET module_size   == bsize
        offset        == bord * bsize
        img_size      == img.img_size
        qr_size       == (img_size - 2 * offset) \div module_size
        top_right_x   == offset + (qr_size - 7) * module_size
        bottom_left_y == offset + (qr_size - 7) * module_size
    IN  [ img EXCEPT !.draws =
            @ \o ClearRectangles(offset, top_right_x, bottom_left_y,
                                 marker_size(module_size))
              \o draw_circular_position_marker(offset, offset, module_size)
              \o draw_circular_position_marker(top_right_x, offset,
                                               module_size)
              \o draw_circular_position_marker(offset, bottom_left_y,
                                               module_size) ]

\* qr.make_image(image_factory=StyledPilImage,
\*               module_drawer=CircleAllModuleDrawer(), ...)
make_image_styled(qr) ==
    LET on == TrueCells(qr.modules, qr.modules_count)
    IN  [ img_size |-> pixel_size(qr),
          out_size |-> pixel_size(qr),
          draws |-> << NewImage(pixel_size(qr)) >>
                    \o [ i \in 1..Len(on) |->
                           drawrect(pixel_box(on[i][1], on[i][2])) ] ]

\* qr.make_image(fill_color="black", back_color="white"): one rectangle
\* on the pixel box of every dark module
make_image_plain(qr) ==
    LET on == TrueCells(qr.modules, qr.modules_count)
    IN  [ img_size |-> pixel_size(qr),
          out_size |-> pixel_size(qr),
          draws |-> << NewImage(pixel_size(qr)) >>
                    \o [ i \in 1..Len(on) |->
                           LET box == pixel_box(on[i][1], on[i][2])
                           IN  Rectangle(box[1][1], box[1][2],
                                         box[2][1], box[2][2], "black") ] ]

\* img.resize((1000, 1000), Image.Resampling.LANCZOS)
resize(img, side) == [ img EXCEPT !.out_size = Px(side) ]

create_qr_code_elegant(qr) ==
    resize(replace_position_markers(make_image_styled(qr),
                                    Px(box_size), border), 1000)

create_qr_code_classic(qr) ==
    resize(make_image_plain(qr), 1000)

\* ---- main(): the generate handler --------------------------------------
VARIABLES
    url,          \* the text typed into the URL field: "" or a URL
    qr,           \* the symbol the encoder makes of the URL
    pc,           \* position of the handler
    img_elegant,  \* the four outputs, None until produced
    svg_elegant,
    img_classic,
    svg_classic,
    ui            \* what the handler has emitted to the page, in order

vars == << url, qr, pc, img_elegant, svg_elegant, img_classic, svg_classic,
           ui >>

Urls == { "", "24.hu" }

\* variant: the exception is swallowed
OnException_Swallowed(u) == u

\* what the except clause emits: st.error("Error: ...")
OnException(u) == Append(u, "error")

\* what the handler emits after the four generators returned
DisplayAll(u) ==
    u \o << "success", "preview_title", "image_elegant", "image_classic",
            "download_title",
            "download_elegant_png", "download_elegant_svg",
            "download_classic_png", "download_classic_svg",
            "qr_url", "qr_info" >>

Init ==
    /\ url \in Urls
    /\ qr \in Symbols
    /\ pc = "idle"
    /\ img_elegant = None
    /\ svg_elegant = None
    /\ img_classic = None
    /\ svg_classic = None
    /\ ui = << >>

\* the button is pressed with an empty URL field
GenerateEmpty ==
    /\ pc = "idle"
    /\ url = ""
    /\ ui' = Append(ui, "error_empty")
    /\ pc' = "done"
    /\ UNCHANGED << url, qr, img_elegant, svg_elegant, img_classic,
                    svg_classic >>

\* the button is pressed with a URL: the try block is entered
GenerateStart ==
    /\ pc = "idle"
    /\ url # ""
    /\ pc' = "create_qr_code_elegant"
    /\ UNCHANGED << url, qr, img_elegant, svg_elegant, img_classic,
                    svg_classic, ui >>

\* a generator raises: the except clause runs and the handler ends
Raise ==
    /\ ui' = OnException(ui)
    /\ pc' = "failed"

CreateQrCodeElegant ==
    /\ pc = "create_qr_code_elegant"
    /\ \/ /\ img_elegant' = create_qr_code_elegant(qr)
          /\ pc' = "create_svg_elegant"
          /\ UNCHANGED ui
       \/ /\ Raise
          /\ UNCHANGED img_elegant
    /\ UNCHANGED << url, qr, svg_elegant, img_classic, svg_classic >>

CreateSvgElegant ==
    /\ pc = "create_svg_elegant"
    /\ \/ /\ svg_elegant' = create_svg_elegant(qr)
          /\ pc' = "create_qr_code_classic"
          /\ UNCHANGED ui
       \/ /\ Raise
          /\ UNCHANGED svg_elegant
    /\ UNCHANGED << url, qr, img_elegant, img_classic, svg_classic >>

CreateQrCodeClassic ==
    /\ pc = "create_qr_code_classic"
    /\ \/ /\ img_classic' = create_qr_code_classic(qr)
          /\ pc' = "create_svg_classic"
          /\ UNCHANGED ui
       \/ /\ Raise
          /\ UNCHANGED img_classic
    /\ UNCHANGED << url, qr, img_elegant, svg_elegant, svg_classic >>

CreateSvgClassic ==
    /\ pc = "create_svg_classic"
    /\ \/ /\ svg_classic' = create_svg_classic(qr)
          /\ pc' = "display"
          /\ UNCHANGED ui
       \/ /\ Raise
          /\ UNCHANGED svg_classic
    /\ UNCHANGED << url, qr, img_elegant, svg_elegant, img_classic >>

\* success message, previews, download buttons, URL and symbol info
Display ==
    /\ pc = "display"
    /\ ui' = DisplayAll(ui)
    /\ pc' = "done"
    /\ UNCHANGED << url, qr, img_elegant, svg_elegant, img_classic,
                    svg_classic >>

\* the next interaction reruns the script: nothing of the last run is kept
Rerun ==
    /\ pc \in { "done", "failed" }
    /\ url' \in Urls
    /\ qr' \in Symbols
    /\ pc' = "idle"
    /\ img_elegant' = None
    /\ svg_elegant' = None
    /\ img_classic' = None
    /\ svg_classic' = None
    /\ ui' = << >>

Next ==
    \/ GenerateEmpty
    \/ GenerateStart
    \/ CreateQrCodeElegant
    \/ CreateSvgElegant
    \/ CreateQrCodeClassic
    \/ CreateSvgClassic
    \/ Display
    \/ Rerun

Spec == Init /\ [][Next]_vars

\* ======================================================================
\* Properties
\* ======================================================================
\* number of positions of a sequence whose element satisfies P
CountIn(s, P(_)) == Cardinality({ i \in DOMAIN s : P(s[i]) })

\* classification of SVG elements by their geometry (one pitch = Sub)
IsSvgRect(e)     == e.kind = "rect"
IsSvgCircle(e)   == e.kind = "circle"
IsSvgRing(e)     == e.kind = "circle" /\ 2 * e.r \in { 7 * Sub, 5 * Sub, 3 * Sub }
IsSvgDot(e)      == e.kind = "circle" /\ 2 * e.r < Sub /\ e.fill = "black"
IsSvgCanvas(doc, e) ==
    /\ e.kind = "rect" /\ e.fill = "white"
    /\ e.x = 0 /\ e.y = 0
    /\ e.width = doc.den * Sub /\ e.height = doc.den * Sub
IsSvgModule(e) ==
    /\ e.kind = "rect" /\ e.fill = "black"
    /\ e.width = Sub /\ e.height = Sub
IsSvgClear(e) ==
    /\ e.kind = "rect" /\ e.fill = "white"
    /\ e.width = 8 * Sub /\ e.height = 8 * Sub

\* dark modules of the symbol outside the three 7x7 finder regions
DataModules(q) ==
    { rc \in q.modules : ~InFinder(q.modules_count, rc[1], rc[2]) }

\* centres <<cx, cy>> of the data dots of an SVG document
SvgDotCentres(doc) ==
    { << doc.elements[i].cx, doc.elements[i].cy >> :
        i \in { j \in DOMAIN doc.elements : IsSvgDot(doc.elements[j]) } }

\* C1 (as stated): the elegant SVG consists of one background rectangle,
\* 9 finder-ring circles and one data circle per dark module OUTSIDE the
\* finder regions, and of nothing else.
C1_ElegantPlanSkipsFinders ==
    svg_elegant # None =>
        LET es == svg_elegant.elements
        IN  /\ CountIn(es, IsSvgRect) = 1
            /\ IsSvgCanvas(svg_elegant, es[1])
            /\ CountIn(es, IsSvgRing) = 9
            /\ CountIn(es, IsSvgDot) = Cardinality(DataModules(qr))
            /\ Len(es) = 1 + 9 + Cardinality(DataModules(qr))

\* C1 (amended): the elegant SVG consists of one background rectangle, one
\* data circle per dark module of the symbol (those inside the finder
\* regions included, each at its own position), three white 8x8-pitch
\* clearing rectangles and 9 finder-ring circles, and of nothing else.
C1_ElegantPlanCounts ==
    svg_elegant # None =>
        LET es == svg_elegant.elements
        IN  /\ IsSvgCanvas(svg_elegant, es[1])
            /\ CountIn(es, IsSvgRect) = 1 + 3
            /\ CountIn(es, IsSvgClear) = 3
            /\ CountIn(es, IsSvgRing) = 9
            /\ CountIn(es, IsSvgDot) = Cardinality(qr.modules)
            /\ Cardinality(SvgDotCentres(svg_elegant)) =
                   Cardinality(qr.modules)
            /\ Len(es) = 1 + Cardinality(qr.modules) + 3 + 9

C1_Witness ==
    /\ svg_elegant # None
    /\ qr.modules_count = 25
    /\ Cardinality(DataModules(qr)) >= 3
    /\ Cardinality(qr.modules) > Cardinality(DataModules(qr))

\* C2: the classic SVG is the background rectangle followed by exactly one
\* black pitch x pitch rectangle per dark cell of the matrix, placed at
\* (offset + col*pitch, offset + row*pitch); it has no circle.
C2_ClassicPlan ==
    svg_classic # None =>
        LET es     == svg_classic.elements
            matrix == get_matrix(qr)
            offset == border * Sub
        IN  /\ IsSvgCanvas(svg_classic, es[1])
            /\ Len(es) = 1 + Cardinality(matrix.cells)
            /\ \A i \in 2..Len(es) : IsSvgModule(es[i])
            /\ CountIn(es, IsSvgCircle) = 0
            /\ { << es[i].x, es[i].y >> : i \in 2..Len(es) } =
                   { << offset + rc[2] * Sub, offset + rc[1] * Sub >> :
                        rc \in matrix.cells }

C2_Witness ==
    /\ svg_classic # None
    /\ Cardinality(DataModules(qr)) >= 3
    /\ <<6, 8>> \in qr.modules
    /\ <<8, 6>> \notin qr.modules

\* classification of raster drawing calls by their geometry
Pitch == Px(box_size)
IsPilRing(d) ==
    d.kind = "ellipse" /\ d.x1 - d.x0 \in { 7 * Pitch, 5 * Pitch, 3 * Pitch }
IsPilDot(d) ==
    d.kind = "ellipse" /\ d.x1 - d.x0 < Pitch /\ d.fill = "black"
IsPilCanvas(img, d) ==
    /\ d.kind = "rectangle" /\ d.fill = "white"
    /\ d.x0 = 0 /\ d.y0 = 0
    /\ d.x1 = img.img_size /\ d.y1 = img.img_size

\* C3: in the elegant SVG and in the elegant raster image the background
\* fill comes first, the data dots follow, and the 9 finder-ring circles
\* are the last primitives: no data dot is drawn after any ring.
C3_DrawOrder ==
    /\ svg_elegant # None =>
          LET s == svg_elegant.elements
          IN  /\ Len(s) >= 10
              /\ IsSvgCanvas(svg_elegant, s[1])
              /\ \A i \in 2..Len(s) : ~IsSvgCanvas(svg_elegant, s[i])
              /\ \A i \in (Len(s) - 8)..Len(s) : IsSvgRing(s[i])
              /\ \A i \in 1..(Len(s) - 9) : ~IsSvgRing(s[i])
              /\ \A i, j \in DOMAIN s :
                     (IsSvgRing(s[i]) /\ i < j) => ~IsSvgDot(s[j])
              /\ \A i \in 2..(1 + Cardinality(qr.modules)) : IsSvgDot(s[i])
    /\ img_elegant # None =>
          LET s == img_elegant.draws
          IN  /\ Len(s) >= 10
              /\ IsPilCanvas(img_elegant, s[1])
              /\ \A i \in 2..Len(s) : ~IsPilCanvas(img_elegant, s[i])
              /\ \A i \in (Len(s) - 8)..Len(s) : IsPilRing(s[i])
              /\ \A i \in 1..(Len(s) - 9) : ~IsPilRing(s[i])
              /\ \A i, j \in DOMAIN s :
                     (IsPilRing(s[i]) /\ i < j) => ~IsPilDot(s[j])
              /\ \A i \in 2..(1 + Cardinality(qr.modules)) : IsPilDot(s[i])

C3_Witness ==
    /\ svg_elegant # None
    /\ img_elegant # None
    /\ Cardinality(DataModules(qr)) >= 2
    /\ <<9, 9>> \in qr.modules

\* the three ring circles of a marker, as <<centre x, centre y, radius * 2,
\* fill>>, of a marker whose top-left corner is <<x, y>> and pitch is p
RingTriple(x, y, p) ==
    << << 2 * x + 7 * p, 2 * y + 7 * p, 7 * p, "black" >>,
       << 2 * x + 7 * p, 2 * y + 7 * p, 5 * p, "white" >>,
       << 2 * x + 7 * p, 2 * y + 7 * p, 3 * p, "black" >> >>

\* an SVG circle and a raster ellipse as <<2*cx, 2*cy, 2*r, fill>>
SvgRingShape(e) == << 2 * e.cx, 2 * e.cy, 2 * e.r, e.fill >>
PilRingShape(d) == << d.x0 + d.x1, d.y0 + d.y1, d.x1 - d.x0, d.fill >>

\* C6: every finder marker of the elegant style, raster and vector, is
\* three concentric filled circles whose centre is 3.5 pitches right of
\* and below the marker's top-left corner, with radii 3.5, 2.5 and 1.5
\* pitches, filled black, white, black and drawn in that order; the three
\* markers are the top-left, top-right and bottom-left one.
C6_RingTriples ==
    /\ svg_elegant # None =>
          LET s  == svg_elegant.elements
              o  == border * Sub
              far == o + (get_matrix(qr).count - 7) * Sub
              corner == << <<o, o>>, <<far, o>>, <<o, far>> >>
          IN  /\ CountIn(s, IsSvgRing) = 9
              /\ \A k \in 1..3 :
                    [ i \in 1..3 |-> SvgRingShape(s[Len(s) - 12 + 3 * k + i]) ]
                        = RingTriple(corner[k][1], corner[k][2], Sub)
    /\ img_elegant # None =>
          LET s  == img_elegant.draws
              o  == border * Pitch
              far == o + (qr.modules_count - 7) * Pitch
              corner == << <<o, o>>, <<far, o>>, <<o, far>> >>
          IN  /\ CountIn(s, IsPilRing) = 9
              /\ \A k \in 1..3 :
                    [ i \in 1..3 |-> PilRingShape(s[Len(s) - 12 + 3 * k + i]) ]
                        = RingTriple(corner[k][1], corner[k][2], Pitch)

C6_Witness ==
    /\ svg_elegant # None
    /\ img_elegant # None
    /\ qr.modules_count = 25

\* bounding boxes <<x0, y0, x1, y1>>
SvgBox(e) ==
    IF e.kind = "rect"
    THEN << e.x, e.y, e.x + e.width, e.y + e.height >>
    ELSE << e.cx - e.r, e.cy - e.r, e.cx + e.r, e.cy + e.r >>
PilBox(d) == << d.x0, d.y0, d.x1, d.y1 >>

\* box b lies in the square [q, side - q] x [q, side - q], i.e. it has no
\* area in common with the border of width q of a canvas of that side
ClearOfBorder(b, side, q) ==
    /\ b[1] >= q /\ b[2] >= q
    /\ b[3] <= side - q /\ b[4] <= side - q

Shown == { "success", "preview_title", "image_elegant", "image_classic",
           "download_title", "download_elegant_png", "download_elegant_svg",
           "download_classic_png", "download_classic_svg" }

\* C8: if a generator raises, no success message, preview or download
\* button is emitted and the error is reported; previews and downloads
\* appear only when all four outputs have been produced.
C8_NoPartialRendering ==
    /\ (\E i \in DOMAIN ui : ui[i] \in Shown) =>
          /\ img_elegant # None /\ svg_elegant # None
          /\ img_classic # None /\ svg_classic # None
          /\ pc = "done"
    /\ pc = "failed" => ui = << "error" >>

C8_Witness ==
    /\ pc = "failed"
    /\ img_elegant # None
    /\ svg_elegant # None
    /\ img_classic = None

\* position, in draw order, of the dot of dark module rc of symbol q: the
\* dots follow the background in row-major order of the dark modules
DotIndex(q, rc) ==
    1 + Cardinality({ d \in q.modules :
                        d[1] < rc[1] \/ (d[1] = rc[1] /\ d[2] <= rc[2]) })

\* centre modules of the three finder regions, in marker order
\* (top-left, top-right, bottom-left)
FinderCentres(n) == << <<3, 3>>, <<3, n - 4>>, <<n - 4, 3>> >>

\* C4: the vector pitch is size / (symbol side + 2 * border), so 1000/29
\* for a 21-module symbol, and every ring centre is the centre of the
\* corresponding 7x7 finder region of the symbol, i.e. the centre of the
\* dot of that region's centre module.
C4_VectorPitch ==
    /\ svg_classic # None =>
          /\ svg_classic.size = size
          /\ svg_classic.den = qr.modules_count + 2 * border
    /\ svg_elegant # None =>
          LET s == svg_elegant.elements
          IN  /\ svg_elegant.size = size
              /\ svg_elegant.den = qr.modules_count + 2 * border
              /\ \A k \in 1..3 :
                    LET ring == s[Len(s) - 12 + 3 * k + 1]
                        dot  == s[DotIndex(qr,
                                     FinderCentres(qr.modules_count)[k])]
                    IN  ring.cx = dot.cx /\ ring.cy = dot.cy

\* C5: the elegant raster image and the elegant SVG have the same geometry
\* up to scale: canvas side of (symbol side + 2*4) pitches, every data dot
\* at the same position and with the same radius in pitches, and the ring
\* circles at the same positions in pitches.
C5_BackendsAgree ==
    (img_elegant # None /\ svg_elegant # None) =>
        LET ds == img_elegant.draws
            es == svg_elegant.elements
            n  == qr.modules_count
        IN  /\ img_elegant.img_size = (n + 2 * border) * Pitch
            /\ svg_elegant.den = n + 2 * border
            /\ \A i \in 2..(1 + Cardinality(qr.modules)) :
                  /\ (ds[i].x0 + ds[i].x1) * Sub = 2 * es[i].cx * Pitch
                  /\ (ds[i].y0 + ds[i].y1) * Sub = 2 * es[i].cy * Pitch
                  /\ (ds[i].x1 - ds[i].x0) * Sub = 2 * es[i].r * Pitch
            /\ \A j \in 0..8 :
                  /\ (ds[Len(ds) - j].x0 + ds[Len(ds) - j].x1) * Sub =
                         2 * es[Len(es) - j].cx * Pitch
                  /\ (ds[Len(ds) - j].y0 + ds[Len(ds) - j].y1) * Sub =
                         2 * es[Len(es) - j].cy * Pitch
                  /\ (ds[Len(ds) - j].x1 - ds[Len(ds) - j].x0) * Sub =
                         2 * es[Len(es) - j].r * Pitch

\* box a contains box b
BoxIn(b, a) ==
    /\ a[1] <= b[1] /\ a[2] <= b[2]
    /\ b[3] <= a[3] /\ b[4] <= a[4]

\* the 8x8-pitch block of finder region k and its separator, for a symbol
\* of side n whose module <<0, 0>> has its top-left corner at <<o, o>>
FinderBlock(k, n, o, p) ==
    CASE k = 1 -> << o, o, o + 8 * p, o + 8 * p >>
      [] k = 2 -> << o + (n - 8) * p, o, o + n * p, o + 8 * p >>
      [] k = 3 -> << o, o + (n - 8) * p, o + 8 * p, o + n * p >>

\* top-left corner of module <<0, 0>> of the symbol in the elegant SVG
SvgOrigin(doc) == doc.elements[2].cx - Sub \div 2

\* C9: each of the three covering rectangles of the elegant style, raster
\* and vector, is at least 8x8 pitches and contains the 7x7 finder region
\* it covers together with the region's 1-module separator.
C9_CoverAtLeast8x8 ==
    /\ img_elegant # None =>
          LET s == img_elegant.draws
          IN  \A k \in 1..3 :
                LET c == s[Len(s) - 12 + k]
                IN  /\ c.kind = "rectangle"
                    /\ c.x1 - c.x0 >= 8 * Pitch
                    /\ c.y1 - c.y0 >= 8 * Pitch
                    /\ BoxIn(FinderBlock(k, qr.modules_count,
                                         border * Pitch, Pitch), PilBox(c))
    /\ svg_elegant # None =>
          LET s == svg_elegant.elements
          IN  \A k \in 1..3 :
                LET c == s[Len(s) - 12 + k]
                IN  /\ c.kind = "rect"
                    /\ c.width >= 8 * Sub
                    /\ c.height >= 8 * Sub
                    /\ BoxIn(FinderBlock(k, qr.modules_count,
                                         SvgOrigin(svg_elegant), Sub),
                             SvgBox(c))

\* circle <<cx, cy, r>> a contains circle b
CircleIn(b, a) ==
    LET gap == a[3] - b[3]
        dx  == IF a[1] >= b[1] THEN a[1] - b[1] ELSE b[1] - a[1]
        dy  == IF a[2] >= b[2] THEN a[2] - b[2] ELSE b[2] - a[2]
    IN  /\ gap >= 0 /\ dx <= gap /\ dy <= gap
        /\ dx * dx + dy * dy <= gap * gap

SvgRound(e) == << e.cx, e.cy, e.r >>
PilRound(d) ==
    << (d.x0 + d.x1) \div 2, (d.y0 + d.y1) \div 2, (d.x1 - d.x0) \div 2 >>

\* the dark modules of the symbol inside the three finder regions
FinderModules(q) == q.modules \ DataModules(q)

\* C10: in the finished elegant output, raster and vector, no data dot of
\* a dark module inside a finder region remains visible: every such dot
\* lies entirely inside a covering rectangle or a ring circle painted
\* after it.
C10_FinderDotsCovered ==
    /\ img_elegant # None =>
          LET s == img_elegant.draws
          IN  \A rc \in FinderModules(qr) :
                LET i == DotIndex(qr, rc)
                IN  \E j \in (i + 1)..Len(s) :
                      \/ /\ s[j].kind = "rectangle"
                         /\ BoxIn(PilBox(s[i]), PilBox(s[j]))
                      \/ /\ s[j].kind = "ellipse"
                         /\ CircleIn(PilRound(s[i]), PilRound(s[j]))
    /\ svg_elegant # None =>
          LET s == svg_elegant.elements
          IN  \A rc \in FinderModules(qr) :
                LET i == DotIndex(qr, rc)
                IN  \E j \in (i + 1)..Len(s) :
                      \/ /\ s[j].kind = "rect"
                         /\ BoxIn(SvgBox(s[i]), SvgBox(s[j]))
                      \/ /\ s[j].kind = "circle"
                         /\ CircleIn(SvgRound(s[i]), SvgRound(s[j]))

\* boxes a and b have an area in common
BoxesOverlap(a, b) ==
    /\ a[1] < b[3] /\ b[1] < a[3]
    /\ a[2] < b[4] /\ b[2] < a[4]

\* the dark modules of the symbol outside the three 8x8 blocks made of a
\* finder region and its 1-module separator
OutsideBlocks(q) ==
    { rc \in q.modules :
        \A k \in 1..3 :
            LET b == FinderBlock(k, q.modules_count, 0, 1)
            IN  ~(/\ b[1] <= rc[2] /\ rc[2] < b[3]
                  /\ b[2] <= rc[1] /\ rc[1] < b[4]) }

\* C11: in the elegant output, raster and vector, none of the covering
\* rectangles and ring circles painted after the data dots overlaps the
\* dot of a dark module outside the finder regions and their separators
\* (not even its bounding box), so every such dot stays fully visible.
C11_DataPreserved ==
    /\ img_elegant # None =>
          LET s == img_elegant.draws
          IN  \A rc \in OutsideBlocks(qr) :
                \A j \in (Len(s) - 11)..Len(s) :
                    ~BoxesOverlap(PilBox(s[DotIndex(qr, rc)]), PilBox(s[j]))
    /\ svg_elegant # None =>
          LET s == svg_elegant.elements
          IN  \A rc \in OutsideBlocks(qr) :
                \A j \in (Len(s) - 11)..Len(s) :
                    ~BoxesOverlap(SvgBox(s[DotIndex(qr, rc)]), SvgBox(s[j]))

C11_Witness ==
    /\ img_elegant # None
    /\ svg_elegant # None
    /\ <<6, 8>> \in OutsideBlocks(qr)
    /\ << qr.modules_count - 8, 8 >> \in OutsideBlocks(qr)
    /\ IsPilDot(img_elegant.draws[DotIndex(qr, <<6, 8>>)])
    /\ IsSvgDot(svg_elegant.elements[DotIndex(qr, <<6, 8>>)])

====
